---- MODULE Spec2Model ----
(***************************************************************************)
(* Model of the dental-clinic pricing dashboard (src/main.py).             *)
(*                                                                         *)
(* Numbers.  Python floats are modelled as exact rationals <<n, d>> in     *)
(* lowest terms with d > 0; the IEEE specials are <<1,0>> (+inf),          *)
(* <<-1,0>> (-inf) and <<0,0>> (NaN, also what pd.to_numeric(...,          *)
(* errors='coerce') yields for a cell that is not a number).  Rounding     *)
(* error of binary floating point is not modelled: an equality below is    *)
(* an equality of the exact values the formulas denote.  The one exception *)
(* is SpecFloat, where every operation of the engine rounds its result to  *)
(* FloatBits significant bits, to nearest and ties to even, as float64     *)
(* does with 53 bits.                                                      *)
(*                                                                         *)
(* Tables.  A DataFrame is [isdf, cols, rows]: isdf = FALSE is Python's    *)
(* None, cols the set of column labels, rows a sequence of records.        *)
(* Money is counted in small units so that the tables stay enumerable.     *)
(***************************************************************************)
EXTENDS Integers, Sequences, FiniteSets, TLC

VARIABLES
    lang,          \* st.session_state[STATE_LANG]
    settings,      \* st.session_state[STATE_SETTINGS]
    services,      \* st.session_state[STATE_SERVICES_DF_INPUT]
    results,       \* st.session_state[STATE_RESULTS_DF]
    calculated,    \* st.session_state[STATE_CALCULATED]
    sim_results,   \* st.session_state[STATE_SIMULATION_RESULTS_DF]
    file,          \* contents of DATA_FILE on disk
    used,          \* pool and margin of the pricing run that produced results
    trace,         \* what the last script run did (engine and sensitivity calls)
    arg,           \* inputs of the function under test (function specifications)
    ret,           \* its return value
    pc             \* "input" before the call, the function's name after it

vars == <<lang, settings, services, results, calculated, sim_results, file,
          used, trace, arg, ret, pc>>

shellVars ==
    <<lang, settings, services, results, calculated, sim_results, file, used, trace>>

fnVars == <<arg, ret, pc>>

----------------------------------------------------------------------------
(* Bounds of the model *)

MaxServices == 2

MaxCases == 2

----------------------------------------------------------------------------
(* Column labels *)

COL_NAME_EN == "Service Name (Display)"

COL_EXPECTED_CASES == "Exp. Cases/Month"

COL_VAR_COST == "Var. Cost/Case (EGP)"

COL_DURATION == "Duration (hr)"

InputCols == {COL_NAME_EN, COL_EXPECTED_CASES, COL_VAR_COST, COL_DURATION}

----------------------------------------------------------------------------
(* Float arithmetic on exact rationals *)

Abs(x) == IF x < 0 THEN -x ELSE x

Sgn(x) == IF x < 0 THEN -1 ELSE IF x > 0 THEN 1 ELSE 0

RECURSIVE Gcd(_, _)
Gcd(a, b) == IF b = 0 THEN a ELSE Gcd(b, a % b)

\* The float n/d; a zero denominator gives the IEEE special of the sign of n.
Q(n, d) ==
    IF d = 0 THEN <<Sgn(n), 0>>
    ELSE LET g == Gcd(Abs(n), Abs(d))
         IN  <<(Sgn(d) * n) \div g, Abs(d) \div g>>

R(i) == <<i, 1>>

NaN == <<0, 0>>

Inf == <<1, 0>>

IsNaN(x) == x = NaN

IsFinite(x) == x[2] # 0

Add(x, y) ==
    IF IsFinite(x) /\ IsFinite(y) THEN Q(x[1] * y[2] + y[1] * x[2], x[2] * y[2])
    ELSE IF IsNaN(x) \/ IsNaN(y) THEN NaN
    ELSE IF ~IsFinite(x) /\ ~IsFinite(y) /\ x # y THEN NaN
    ELSE IF IsFinite(x) THEN y ELSE x

Neg(x) == <<-x[1], x[2]>>

Sub(x, y) == Add(x, Neg(y))

Mul(x, y) ==
    IF IsFinite(x) /\ IsFinite(y) THEN Q(x[1] * y[1], x[2] * y[2])
    ELSE IF IsNaN(x) \/ IsNaN(y) \/ x[1] = 0 \/ y[1] = 0 THEN NaN
    ELSE <<Sgn(x[1]) * Sgn(y[1]), 0>>

Div(x, y) ==
    IF IsFinite(x) /\ IsFinite(y) THEN Q(x[1] * y[2], x[2] * y[1])
    ELSE IF IsNaN(x) \/ IsNaN(y) \/ (~IsFinite(x) /\ ~IsFinite(y)) THEN NaN
    ELSE IF IsFinite(x) THEN R(0)
    ELSE <<Sgn(x[1]) * (IF y[1] < 0 THEN -1 ELSE 1), 0>>

\* x < y as floats compare: every comparison with NaN is false.
Lt(x, y) ==
    /\ ~IsNaN(x)
    /\ ~IsNaN(y)
    /\ x # y
    /\ IF IsFinite(x) /\ IsFinite(y) THEN x[1] * y[2] < y[1] * x[2]
       ELSE IF ~IsFinite(x) THEN x[1] < 0
       ELSE y[1] > 0

Le(x, y) == ~IsNaN(x) /\ ~IsNaN(y) /\ (x = y \/ Lt(x, y))

Gt(x, y) == Lt(y, x)

Max(x, y) == IF Gt(y, x) THEN y ELSE x

\* int(x) and Series.astype(int): truncation toward zero of a finite float.
Trunc(x) == R(Sgn(x[1]) * (Abs(x[1]) \div x[2]))

RECURSIVE SumSeq(_)
SumSeq(s) == IF s = <<>> THEN R(0) ELSE Add(Head(s), SumSeq(Tail(s)))

----------------------------------------------------------------------------
(* Tables *)

NoneDF == [isdf |-> FALSE, cols |-> {}, rows |-> <<>>]

DF(cols, rows) == [isdf |-> TRUE, cols |-> cols, rows |-> rows]

\* DataFrame.empty: an axis of length 0.
Empty(df) == df.cols = {} \/ df.rows = <<>>

Column(df, f) == [i \in DOMAIN df.rows |-> df.rows[i][f]]

\* Cells of an input table: a number, a text (v is the number it parses to,
\* NaN when it is no number) or None.
Num(x) == [t |-> "num", v |-> x]

Text(x) == [t |-> "str", v |-> x]

NoneCell == [t |-> "none", v |-> NaN]

\* pd.to_numeric(cell, errors='coerce')
to_numeric(c) == IF c.t = "none" THEN NaN ELSE c.v

fillna(x, d) == IF IsNaN(x) THEN d ELSE x

----------------------------------------------------------------------------
(* calculate_detailed_pricing *)

COL_SERVICE_HOURS == "Total Service Hours"

COL_ALLOC_FIXED_COST == "Alloc. Fixed Cost (EGP)"

COL_FIXED_COST_PER_CASE == "Fixed Cost/Case (EGP)"

COL_TOTAL_COST_PER_CASE == "Total Cost/Case (EGP)"

COL_PRICE_PER_CASE == "Suggested Price/Case (EGP)"

COL_CONTRIB_MARGIN == "Contrib. Margin/Case (EGP)"

COL_CONTRIB_MARGIN_RATIO == "Contrib. Margin Ratio (%)"

COL_BREAK_EVEN == "Break-Even (Cases)"

COL_REVENUE_EXPECTED == "Exp. Revenue (EGP)"

COL_PROFIT_EXPECTED == "Exp. Profit (EGP)"

COL_CM_PER_HOUR == "Contrib. Margin/Hour (EGP)"

COL_REVENUE_PER_HOUR == "Revenue/Hour (EGP)"

CalcCols ==
    {COL_SERVICE_HOURS, COL_ALLOC_FIXED_COST, COL_FIXED_COST_PER_CASE,
     COL_TOTAL_COST_PER_CASE, COL_PRICE_PER_CASE, COL_CONTRIB_MARGIN,
     COL_CONTRIB_MARGIN_RATIO, COL_BREAK_EVEN, COL_REVENUE_EXPECTED,
     COL_PROFIT_EXPECTED, COL_CM_PER_HOUR, COL_REVENUE_PER_HOUR}

\* Mutant: the duration filled but not clamped.
CoerceDuration_NoClamp(c) == fillna(to_numeric(c), Q(1, 10))

\* Lines 488-494: the three numeric columns as the engine computes with them.
CoerceCases(c) == Trunc(fillna(to_numeric(c), R(0)))

CoerceVarCost(c) == fillna(to_numeric(c), R(0))

CoerceDuration(c) == Max(fillna(to_numeric(c), Q(1, 10)), Q(1, 100))

\* Mutants of the allocation: the pool split by hours without the share, and
\* the share without the guard of line 511.
AllocFixedCost_NoShare(total_fixed_cost, hours, total_service_hours) ==
    IF Le(total_service_hours, R(0)) THEN R(0)
    ELSE Mul(total_fixed_cost, hours)

AllocFixedCost_NoGuard(total_fixed_cost, hours, total_service_hours) ==
    Mul(total_fixed_cost, Div(hours, total_service_hours))

\* Lines 511-522: the share of the fixed-cost pool of a service.
AllocFixedCost(total_fixed_cost, hours, total_service_hours) ==
    IF Le(total_service_hours, R(0)) THEN R(0)
    ELSE Mul(total_fixed_cost, Div(hours, total_service_hours))

\* Mutant: the whole share charged to every case.
FixedCostPerCase_Whole(alloc, cases, total_service_hours) ==
    IF Le(total_service_hours, R(0)) THEN R(0)
    ELSE IF Gt(cases, R(0)) THEN alloc ELSE R(0)

\* Lines 515-522
FixedCostPerCase(alloc, cases, total_service_hours) ==
    IF Le(total_service_hours, R(0)) THEN R(0)
    ELSE IF Gt(cases, R(0)) THEN Div(alloc, cases) ELSE R(0)

\* Mutant: a break-even of 0 instead of the sentinel.
BreakEven_Zero(alloc, cm) == IF Gt(cm, R(0)) THEN Div(alloc, cm) ELSE R(0)

\* Lines 539-543
BreakEven(alloc, cm) == IF Gt(cm, R(0)) THEN Div(alloc, cm) ELSE Inf

\* Mutant: the ratio as a fraction, not a percentage.
ContribMarginRatio_Fraction(cm, price) ==
    IF Gt(price, R(0)) THEN Div(cm, price) ELSE R(0)

\* Lines 533-537
ContribMarginRatio(cm, price) ==
    IF Gt(price, R(0)) THEN Mul(Div(cm, price), R(100)) ELSE R(0)

\* Line 527
ContribMargin(price, vc) == Sub(price, vc)

\* Mutant: the revenue of one case.
RevenueExpected_OneCase(price, cases) == price

\* Line 545
RevenueExpected(price, cases) == Mul(price, cases)

\* Line 546
ProfitExpected(cm, cases, alloc) == Sub(Mul(cm, cases), alloc)

\* Lines 507-558: one row of the result, given the coerced row and the total.
PriceRow(row, total_fixed_cost, margin, total_service_hours) ==
    LET cases == CoerceCases(row.cases)
        vc    == CoerceVarCost(row.var_cost)
        dur   == CoerceDuration(row.duration)
        hours == Mul(cases, dur)
        alloc == AllocFixedCost(total_fixed_cost, hours, total_service_hours)
        fcpc  == FixedCostPerCase(alloc, cases, total_service_hours)
        tcpc  == Add(vc, fcpc)
        price == Mul(tcpc, Add(R(1), margin))
        cm    == ContribMargin(price, vc)
    IN  [name |-> row.name,
         cases |-> cases,
         var_cost |-> vc,
         duration |-> dur,
         service_hours |-> hours,
         alloc_fixed_cost |-> alloc,
         fixed_cost_per_case |-> fcpc,
         total_cost_per_case |-> tcpc,
         price_per_case |-> price,
         contrib_margin |-> cm,
         contrib_margin_ratio |-> ContribMarginRatio(cm, price),
         break_even |-> BreakEven(alloc, cm),
         revenue_expected |-> RevenueExpected(price, cases),
         profit_expected |-> ProfitExpected(cm, cases, alloc),
         revenue_per_hour |-> IF Gt(dur, R(0)) THEN Div(price, dur) ELSE R(0),
         cm_per_hour |-> IF Gt(dur, R(0)) THEN Div(cm, dur) ELSE R(0)]

\* Mutant: the variable cost weighs in the denominator of the shares.
TotalServiceHours_WithCost(df) ==
    SumSeq([i \in DOMAIN df.rows |->
              Add(Mul(CoerceCases(df.rows[i].cases), CoerceDuration(df.rows[i].duration)),
                  CoerceVarCost(df.rows[i].var_cost))])

\* Lines 507-508
TotalServiceHours(df) ==
    SumSeq([i \in DOMAIN df.rows |->
              Mul(CoerceCases(df.rows[i].cases), CoerceDuration(df.rows[i].duration))])

calculate_detailed_pricing(services_df_input, total_fixed_cost, margin) ==
    IF ~services_df_input.isdf \/ Empty(services_df_input) THEN NoneDF
    ELSE IF ~({COL_EXPECTED_CASES, COL_VAR_COST, COL_DURATION}
                \subseteq services_df_input.cols) THEN NoneDF
    ELSE LET total_service_hours == TotalServiceHours(services_df_input)
         IN  DF(services_df_input.cols \cup CalcCols,
                [i \in DOMAIN services_df_input.rows |->
                   PriceRow(services_df_input.rows[i], total_fixed_cost, margin,
                            total_service_hours)])

----------------------------------------------------------------------------
(* Inputs of the function specifications *)

\* Display names are sequences of characters.
ServiceNames == << <<"A">>, <<"B">>, <<"C">>, <<"D">> >>

VarCostVals == {R(0), R(3)}

\* 1/200 h is below the 0.01 h that line 494 clamps to.
DurationVals == {Q(1, 200), Q(1, 100), R(1)}

FixedCostVals == {R(0), R(12)}

\* A margin below -1 makes the price negative.
MarginVals == {R(0), Q(1, 2), Q(-1, 2), R(-2)}

\* Row i of a collection that satisfies the data model: a name of its own,
\* an integer expected_cases >= 0, variable_cost >= 0, duration_hours > 0.
ValidRows(i) ==
    [name : {ServiceNames[i]},
     cases : {Num(R(k)) : k \in 0..MaxCases},
     var_cost : {Num(x) : x \in VarCostVals},
     duration : {Num(x) : x \in DurationVals}]

\* The tables of n rows whose row i is drawn from rows[i].
RowSeqs(n, rows) ==
    {s \in [1..n -> UNION {rows[i] : i \in 1..n}] : \A i \in 1..n : s[i] \in rows[i]}

ValidCollections ==
    {DF(InputCols, s) : s \in UNION {RowSeqs(n, [i \in 1..n |-> ValidRows(i)]) : n \in 1..MaxServices}}

\* The session is not part of a function specification.
ShellIdle ==
    /\ lang = "ar"
    /\ settings = <<>>
    /\ services = NoneDF
    /\ results = NoneDF
    /\ calculated = FALSE
    /\ sim_results = NoneDF
    /\ file = <<>>
    /\ used = <<>>
    /\ trace = <<>>

----------------------------------------------------------------------------
(* SpecPricing: calculate_detailed_pricing on every valid collection *)

InitPricing ==
    /\ ShellIdle
    /\ arg \in [df : ValidCollections, total_fixed_cost : FixedCostVals,
                margin : MarginVals]
    /\ ret = NoneDF
    /\ pc = "input"

CallPricing ==
    /\ pc = "input"
    /\ ret' = calculate_detailed_pricing(arg.df, arg.total_fixed_cost, arg.margin)
    /\ pc' = "calculate_detailed_pricing"
    /\ UNCHANGED <<arg, shellVars>>

NextPricing == CallPricing

SpecPricing == InitPricing /\ [][NextPricing]_vars

Priced == pc = "calculate_detailed_pricing"

SumOf(df, f) == SumSeq(Column(df, f))

AllCasesZero(df) == \A i \in DOMAIN df.rows : to_numeric(df.rows[i].cases) = R(0)

----------------------------------------------------------------------------
(* Claims about the allocation (SpecPricing) *)

\* C1 as stated: for every valid collection and every pool, the allocated
\* fixed costs of the result add up to the pool.
C1_ConservationAlways ==
    Priced => ret.isdf /\ SumOf(ret, "alloc_fixed_cost") = arg.total_fixed_cost

\* C1, amended: the allocated fixed costs add up to the pool whenever the total
\* service hours are positive, and to zero when no hours are projected.
C1_Conservation ==
    Priced =>
        /\ ret.isdf
        /\ SumOf(ret, "alloc_fixed_cost") =
              IF Gt(SumOf(ret, "service_hours"), R(0)) THEN arg.total_fixed_cost
              ELSE R(0)

C1_Witness ==
    /\ Priced
    /\ Len(ret.rows) = 2
    /\ ret.rows[1].alloc_fixed_cost = R(4)
    /\ ret.rows[2].alloc_fixed_cost = R(8)
    /\ arg.total_fixed_cost = R(12)

\* C8: an allocation k times as large for k times the service hours (k = 1, 2),
\* and equal allocations for equal expected_cases * duration_hours.
C8_Proportional ==
    Priced =>
        \A i, j \in DOMAIN ret.rows :
            /\ \A k \in 1..2 :
                  ret.rows[i].service_hours = Mul(R(k), ret.rows[j].service_hours)
                  => ret.rows[i].alloc_fixed_cost
                       = Mul(R(k), ret.rows[j].alloc_fixed_cost)
            /\ Mul(to_numeric(arg.df.rows[i].cases), to_numeric(arg.df.rows[i].duration))
                 = Mul(to_numeric(arg.df.rows[j].cases), to_numeric(arg.df.rows[j].duration))
               => ret.rows[i].alloc_fixed_cost = ret.rows[j].alloc_fixed_cost

\* C9: when every service expects 0 cases the engine returns a table whose
\* allocated fixed cost and fixed cost per case are 0 in every row.
C9_ZeroHours ==
    Priced /\ AllCasesZero(arg.df) =>
        /\ ret.isdf
        /\ Len(ret.rows) = Len(arg.df.rows)
        /\ \A i \in DOMAIN ret.rows :
              /\ ret.rows[i].alloc_fixed_cost = R(0)
              /\ ret.rows[i].fixed_cost_per_case = R(0)

C9_Witness ==
    /\ Priced
    /\ AllCasesZero(arg.df)
    /\ Len(arg.df.rows) = 2
    /\ arg.total_fixed_cost = R(12)
    /\ ret.isdf

\* C10: break_even_cases is allocated_fixed_cost / contribution_margin when the
\* contribution margin is positive and +infinity otherwise.
C10_BreakEvenSentinel ==
    Priced =>
        /\ ret.isdf
        /\ \A i \in DOMAIN ret.rows :
              LET r == ret.rows[i]
                  cm == Sub(r.price_per_case, r.var_cost)
              IN  /\ r.contrib_margin = cm
                  /\ Gt(cm, R(0)) =>
                        /\ IsFinite(r.break_even)
                        /\ Mul(r.break_even, cm) = r.alloc_fixed_cost
                  /\ Le(cm, R(0)) => r.break_even = Inf

\* A price equal to the variable cost, and one below it (negative margin).
C10_Witness ==
    /\ Priced
    /\ Len(ret.rows) = 2
    /\ ret.rows[1].price_per_case = ret.rows[1].var_cost
    /\ ret.rows[1].break_even = Inf
    /\ Lt(ret.rows[2].contrib_margin, R(0))
    /\ ret.rows[2].break_even = Inf

\* The formulas of the data model, on the input values of row i.
InputHours(df, i) == Mul(to_numeric(df.rows[i].cases), to_numeric(df.rows[i].duration))

InputTotalHours(df) == SumSeq([i \in DOMAIN df.rows |-> InputHours(df, i)])

\* C11: for a valid collection with total service hours > 0 every row of the
\* result has service_hours = expected_cases * duration_hours, the share of the
\* pool in proportion to the hours, the fixed cost per case (0 without cases),
\* the total cost per case and the price with the margin on top.
C11_Formulas ==
    Priced /\ Gt(InputTotalHours(arg.df), R(0)) =>
        /\ ret.isdf
        /\ Len(ret.rows) = Len(arg.df.rows)
        /\ \A i \in DOMAIN ret.rows :
              LET r == ret.rows[i]
                  cases == to_numeric(arg.df.rows[i].cases)
                  hours == InputHours(arg.df, i)
                  alloc == Div(Mul(arg.total_fixed_cost, hours), InputTotalHours(arg.df))
                  fcpc == IF Gt(cases, R(0)) THEN Div(alloc, cases) ELSE R(0)
                  tcpc == Add(to_numeric(arg.df.rows[i].var_cost), fcpc)
              IN  /\ r.service_hours = hours
                  /\ r.alloc_fixed_cost = alloc
                  /\ r.fixed_cost_per_case = fcpc
                  /\ r.total_cost_per_case = tcpc
                  /\ r.price_per_case = Mul(tcpc, Add(R(1), arg.margin))

\* C14 as stated: the ratio is the fraction contribution_margin /
\* price_per_case, and it is 0 exactly when the price is 0.
C14_RatioFraction ==
    Priced /\ ret.isdf =>
        \A i \in DOMAIN ret.rows :
            LET r == ret.rows[i]
            IN  /\ r.price_per_case # R(0) =>
                      r.contrib_margin_ratio = Div(r.contrib_margin, r.price_per_case)
                /\ (r.contrib_margin_ratio = R(0)) = (r.price_per_case = R(0))

\* C14, amended: the ratio is the percentage 100 * contribution_margin /
\* price_per_case when the price is positive, and 0 when it is not.
C14_RatioPercent ==
    Priced /\ ret.isdf =>
        \A i \in DOMAIN ret.rows :
            LET r == ret.rows[i]
            IN  /\ r.contrib_margin = Sub(r.price_per_case, r.var_cost)
                /\ Gt(r.price_per_case, R(0)) =>
                      Mul(r.contrib_margin_ratio, r.price_per_case)
                        = Mul(R(100), r.contrib_margin)
                /\ ~Gt(r.price_per_case, R(0)) => r.contrib_margin_ratio = R(0)

\* A contribution margin of half the price, stored as 50.
C14_Witness ==
    /\ Priced
    /\ ret.isdf
    /\ \E i \in DOMAIN ret.rows :
          /\ Gt(ret.rows[i].price_per_case, R(0))
          /\ Mul(R(2), ret.rows[i].contrib_margin) = ret.rows[i].price_per_case
          /\ ret.rows[i].contrib_margin_ratio = R(50)

\* SpecIndependence: calculate_detailed_pricing on every valid collection, with
\* one pool and one margin.
InitIndependence ==
    /\ ShellIdle
    /\ arg \in [df : ValidCollections, total_fixed_cost : {R(12)}, margin : {Q(1, 2)}]
    /\ ret = NoneDF
    /\ pc = "input"

NextIndependence == CallPricing

SpecIndependence == InitIndependence /\ [][NextIndependence]_vars

\* The table with the variable cost of row k replaced, and the table with
\* its rows in the order p.
WithVarCost(df, k, x) == [df EXCEPT !.rows[k].var_cost = Num(x)]

Perms(n) == {p \in [1..n -> 1..n] : \A i, j \in 1..n : p[i] = p[j] => i = j}

Permuted(df, p) == [df EXCEPT !.rows = [i \in DOMAIN df.rows |-> df.rows[p[i]]]]

\* C16: when only the variable cost of one service S changes, the result row
\* of every other service stays the same, and so do the service hours and the
\* allocated fixed cost of S; when the rows are reordered the result rows are
\* reordered alike, with the same values.
C16_Independence ==
    Priced /\ ret.isdf =>
        /\ \A k \in DOMAIN arg.df.rows : \A x \in VarCostVals :
              LET other == calculate_detailed_pricing(WithVarCost(arg.df, k, x),
                                                      arg.total_fixed_cost, arg.margin)
              IN  /\ other.isdf
                  /\ Len(other.rows) = Len(ret.rows)
                  /\ \A i \in DOMAIN ret.rows : i # k => other.rows[i] = ret.rows[i]
                  /\ other.rows[k].service_hours = ret.rows[k].service_hours
                  /\ other.rows[k].alloc_fixed_cost = ret.rows[k].alloc_fixed_cost
        /\ \A p \in Perms(Len(arg.df.rows)) :
              LET other == calculate_detailed_pricing(Permuted(arg.df, p),
                                                      arg.total_fixed_cost, arg.margin)
              IN  /\ other.isdf
                  /\ other.rows = [i \in DOMAIN ret.rows |-> ret.rows[p[i]]]

\* Two services with different shares of the pool: another variable cost for
\* the first changes its price and leaves the row of the second as it is.
C16_Witness ==
    /\ Priced
    /\ ret.isdf
    /\ Len(ret.rows) = 2
    /\ arg.df.rows[1].var_cost = Num(R(0))
    /\ Gt(ret.rows[2].alloc_fixed_cost, ret.rows[1].alloc_fixed_cost)
    /\ Gt(ret.rows[1].alloc_fixed_cost, R(0))
    /\ LET other == calculate_detailed_pricing(WithVarCost(arg.df, 1, R(3)),
                                               arg.total_fixed_cost, arg.margin)
       IN  /\ other.rows[1].price_per_case # ret.rows[1].price_per_case
           /\ other.rows[2] = ret.rows[2]

----------------------------------------------------------------------------
(* calculate_sensitivity *)

IsInteger(x) == IsFinite(x) /\ x[2] = 1

\* int(cases), line 633: "ok" with the integer, or the exception it raises.
\* A float truncates, NaN raises ValueError and an infinity OverflowError; a
\* text converts only when it spells an integer; None raises TypeError.
IntOf(c) ==
    IF c.t = "none" THEN [exc |-> "TypeError", v |-> NaN]
    ELSE IF c.t = "str"
         THEN IF IsInteger(c.v) THEN [exc |-> "ok", v |-> c.v]
              ELSE [exc |-> "ValueError", v |-> NaN]
    ELSE IF IsNaN(c.v) THEN [exc |-> "ValueError", v |-> NaN]
    ELSE IF ~IsFinite(c.v) THEN [exc |-> "OverflowError", v |-> NaN]
    ELSE [exc |-> "ok", v |-> Trunc(c.v)]

\* Mutant: the fixed cost multiplied by the case count instead of spread over it.
SensPrice_Times(variable_cost, allocated_fixed_cost, margin, num_cases) ==
    Mul(Add(variable_cost, Mul(allocated_fixed_cost, num_cases)), Add(R(1), margin))

\* Lines 637-639
SensPrice(variable_cost, allocated_fixed_cost, margin, num_cases) ==
    Mul(Add(variable_cost, Div(allocated_fixed_cost, num_cases)), Add(R(1), margin))

\* Mutant: a break-even of 0 when the contribution margin is not positive.
SensBreakEven_Zero(variable_cost, allocated_fixed_cost, price) ==
    LET contribution_margin == Sub(price, variable_cost)
    IN  IF Gt(contribution_margin, R(0))
        THEN Div(allocated_fixed_cost, contribution_margin)
        ELSE R(0)

\* Lines 640-641
SensBreakEven(variable_cost, allocated_fixed_cost, price) ==
    LET contribution_margin == Sub(price, variable_cost)
    IN  IF Gt(contribution_margin, R(0))
        THEN Div(allocated_fixed_cost, contribution_margin)
        ELSE Inf

\* Lines 632-643: one pass of the loop body; raised when the exception is not
\* one of those the except clause names.
SensPoint(variable_cost, allocated_fixed_cost, margin, cases) ==
    LET n == IntOf(cases)
    IN  IF n.exc \in {"ValueError", "TypeError"}
        THEN [raised |-> FALSE, price |-> NaN, be |-> NaN]
        ELSE IF n.exc # "ok" THEN [raised |-> TRUE, price |-> NaN, be |-> NaN]
        ELSE IF Le(n.v, R(0)) THEN [raised |-> FALSE, price |-> Inf, be |-> Inf]
        ELSE LET price == SensPrice(variable_cost, allocated_fixed_cost, margin, n.v)
             IN  [raised |-> FALSE, price |-> price,
                  be |-> SensBreakEven(variable_cost, allocated_fixed_cost, price)]

\* Lines 627-647: the two lists, or raised when an element raises.
calculate_sensitivity(variable_cost, allocated_fixed_cost, margin, cases_range) ==
    LET pts == [k \in DOMAIN cases_range |->
                  SensPoint(variable_cost, allocated_fixed_cost, margin, cases_range[k])]
    IN  IF \E k \in DOMAIN pts : pts[k].raised
        THEN [raised |-> TRUE, prices |-> <<>>, break_evens |-> <<>>]
        ELSE [raised |-> FALSE,
              prices |-> [k \in DOMAIN pts |-> pts[k].price],
              break_evens |-> [k \in DOMAIN pts |-> pts[k].be]]

----------------------------------------------------------------------------
(* SpecSensitivity: calculate_sensitivity on every range of case counts *)

MaxRange == 2

MaxN == 4

RangeCells ==
    {Num(R(k)) : k \in (-1)..MaxN}
        \cup {Num(Q(3, 2)), Num(NaN), Num(Inf), Text(NaN), Text(R(2)), NoneCell}

CaseRanges == UNION {[1..n -> RangeCells] : n \in 0..MaxRange}

\* A call with amounts of the size the dashboard works with.
SensExample ==
    [variable_cost |-> R(100), allocated_fixed_cost |-> R(10000), margin |-> Q(3, 10),
     cases_range |-> <<Num(R(10)), Num(R(20)), Num(R(50))>>]

InitSensitivity ==
    /\ ShellIdle
    /\ arg \in [variable_cost : VarCostVals, allocated_fixed_cost : FixedCostVals,
                margin : MarginVals, cases_range : CaseRanges] \cup {SensExample}
    /\ ret = [raised |-> FALSE, prices |-> <<>>, break_evens |-> <<>>]
    /\ pc = "input"

CallSensitivity ==
    /\ pc = "input"
    /\ ret' = calculate_sensitivity(arg.variable_cost, arg.allocated_fixed_cost,
                                    arg.margin, arg.cases_range)
    /\ pc' = "calculate_sensitivity"
    /\ UNCHANGED <<arg, shellVars>>

NextSensitivity == CallSensitivity

SpecSensitivity == InitSensitivity /\ [][NextSensitivity]_vars

SensDone == pc = "calculate_sensitivity" /\ ~ret.raised

\* Position k of the range holds the integer case count n > 0.
PositiveCount(k) ==
    /\ arg.cases_range[k].t = "num"
    /\ IsInteger(arg.cases_range[k].v)
    /\ Gt(arg.cases_range[k].v, R(0))

\* C4 as stated: the price falls strictly as the case count rises.
C4_StrictlyDecreasing ==
    SensDone =>
        \A i, j \in DOMAIN arg.cases_range :
            PositiveCount(i) /\ PositiveCount(j)
            /\ Lt(arg.cases_range[i].v, arg.cases_range[j].v)
            => Gt(ret.prices[i], ret.prices[j])

\* C4, amended: for an allocated fixed cost > 0 and a margin > -1 the price
\* falls strictly as the case count rises; for an allocated fixed cost of 0
\* the price is the same at every case count.
C4_Monotone ==
    SensDone =>
        \A i, j \in DOMAIN arg.cases_range :
            PositiveCount(i) /\ PositiveCount(j)
            /\ Lt(arg.cases_range[i].v, arg.cases_range[j].v)
            => /\ Gt(arg.allocated_fixed_cost, R(0)) /\ Gt(arg.margin, R(-1))
                  => Gt(ret.prices[i], ret.prices[j])
               /\ arg.allocated_fixed_cost = R(0) => ret.prices[i] = ret.prices[j]

C4_Witness ==
    /\ SensDone
    /\ arg.cases_range = <<Num(R(1)), Num(R(4))>>
    /\ arg.allocated_fixed_cost = R(12)
    /\ arg.variable_cost = R(3)
    /\ arg.margin = Q(1, 2)
    /\ ret.prices = <<Q(45, 2), R(9)>>

\* C12: at every integer case count n > 0 of the range the price times n is
\* (variable_cost * n + allocated_fixed_cost) * (1 + margin), and the
\* break-even is the allocated fixed cost over price - variable_cost when that
\* difference is positive and +infinity otherwise.
C12_SensFormulas ==
    SensDone =>
        \A k \in DOMAIN arg.cases_range :
            PositiveCount(k) =>
                LET n == arg.cases_range[k].v
                    price == ret.prices[k]
                    cm == Sub(price, arg.variable_cost)
                IN  /\ IsFinite(price)
                    /\ Mul(price, n) =
                          Mul(Add(Mul(arg.variable_cost, n), arg.allocated_fixed_cost),
                              Add(R(1), arg.margin))
                    /\ Gt(cm, R(0)) =>
                          /\ IsFinite(ret.break_evens[k])
                          /\ Mul(ret.break_evens[k], cm) = arg.allocated_fixed_cost
                    /\ ~Gt(cm, R(0)) => ret.break_evens[k] = Inf

\* Variable cost 100, allocated fixed cost 10000, margin 0.3 at 10, 20 and 50 cases.
C12_Witness ==
    /\ SensDone
    /\ arg = SensExample
    /\ ret.prices = <<R(1430), R(780), R(390)>>
    /\ ret.break_evens = <<Q(10000, 1330), Q(10000, 680), Q(10000, 290)>>

\* C13: the function never raises; it returns two lists as long as the range,
\* equal elements of the range get equal outputs, and an element n <= 0 gets
\* +infinity for both the price and the break-even.
C13_TotalParallel ==
    pc = "calculate_sensitivity" =>
        /\ ~ret.raised
        /\ Len(ret.prices) = Len(arg.cases_range)
        /\ Len(ret.break_evens) = Len(arg.cases_range)
        /\ \A i, j \in DOMAIN arg.cases_range :
              arg.cases_range[i] = arg.cases_range[j] =>
                  /\ ret.prices[i] = ret.prices[j]
                  /\ ret.break_evens[i] = ret.break_evens[j]
        /\ \A k \in DOMAIN arg.cases_range :
              arg.cases_range[k].t = "num" /\ Le(arg.cases_range[k].v, R(0)) =>
                  ret.prices[k] = Inf /\ ret.break_evens[k] = Inf

----------------------------------------------------------------------------
(* validate_service_data *)

\* A display name that is None rather than a text.
NullName == <<"<None>">>

\* Series.astype(str): None becomes the text "None".
AsStr(name) == IF name = NullName THEN <<"N", "o", "n", "e">> ELSE name

Whitespace == {" "}

RECURSIVE LStrip(_)
LStrip(s) == IF s # <<>> /\ Head(s) \in Whitespace THEN LStrip(Tail(s)) ELSE s

RECURSIVE RStrip(_)
RStrip(s) ==
    IF s # <<>> /\ s[Len(s)] \in Whitespace THEN RStrip(SubSeq(s, 1, Len(s) - 1)) ELSE s

\* str.strip()
Strip(s) == RStrip(LStrip(s))

Err(kind, cols, names) == [kind |-> kind, cols |-> cols, names |-> names]

\* Mutant: the empty-name check on the raw text, without strip().
HasEmptyName_NoStrip(df) == \E i \in DOMAIN df.rows : AsStr(df.rows[i].name) = <<>>

\* Line 447
HasEmptyName(df) == \E i \in DOMAIN df.rows : Strip(AsStr(df.rows[i].name)) = <<>>

\* Line 453: the names carried by more than one row, each once, in the order
\* of their first row (None equals None for DataFrame.duplicated).
RECURSIVE Unique(_)
Unique(s) ==
    IF s = <<>> THEN <<>>
    ELSE LET init == Unique(SubSeq(s, 1, Len(s) - 1))
             last == s[Len(s)]
         IN  IF \E k \in DOMAIN init : init[k] = last THEN init ELSE Append(init, last)

Duplicates(df) ==
    LET dup(i) == \E j \in DOMAIN df.rows : j # i /\ df.rows[j].name = df.rows[i].name
    IN  Unique(SelectSeq([i \in DOMAIN df.rows |->
                            IF dup(i) THEN <<df.rows[i].name>> ELSE <<>>],
                         LAMBDA x : x # <<>>))

DuplicateNames(df) == [k \in DOMAIN Duplicates(df) |-> Duplicates(df)[k][1]]

\* Mutant: the range checks run even when the column holds a value that is no number.
NumericErrors_Both(df, col, f) ==
    LET numeric_series == [i \in DOMAIN df.rows |-> to_numeric(df.rows[i][f])]
    IN  (IF \E i \in DOMAIN numeric_series : IsNaN(numeric_series[i])
         THEN <<Err("valid_err_non_numeric", {col}, <<>>)>> ELSE <<>>)
        \o (IF col # COL_DURATION /\ \E i \in DOMAIN numeric_series : Lt(numeric_series[i], R(0))
            THEN <<Err("valid_err_negative", {col}, <<>>)>> ELSE <<>>)
        \o (IF col = COL_DURATION /\ \E i \in DOMAIN numeric_series : Le(numeric_series[i], R(0))
            THEN <<Err("valid_err_zero_dur", {col}, <<>>)>> ELSE <<>>)

\* Lines 460-473: the errors of one numeric column.
NumericErrors(df, col, f) ==
    LET numeric_series == [i \in DOMAIN df.rows |-> to_numeric(df.rows[i][f])]
    IN  IF col \notin df.cols THEN <<>>
        ELSE IF \E i \in DOMAIN numeric_series : IsNaN(numeric_series[i])
             THEN <<Err("valid_err_non_numeric", {col}, <<>>)>>
        ELSE IF col \in {COL_EXPECTED_CASES, COL_VAR_COST}
             THEN IF \E i \in DOMAIN numeric_series : Lt(numeric_series[i], R(0))
                  THEN <<Err("valid_err_negative", {col}, <<>>)>> ELSE <<>>
        ELSE IF \E i \in DOMAIN numeric_series : Le(numeric_series[i], R(0))
             THEN <<Err("valid_err_zero_dur", {col}, <<>>)>> ELSE <<>>

Returned(errors) == [raised |-> FALSE, valid |-> errors = <<>>, errors |-> errors]

\* Mutant: validation goes on after the missing-column error.
MissingColsStop_GoOn(missing_cols) == FALSE

\* Lines 441-444: a missing required column ends the validation.
MissingColsStop(missing_cols) == missing_cols # {}

\* Lines 431-475.  raised: ', '.join(duplicates) of line 455 raises TypeError
\* when a duplicated name is None.
validate_service_data(df) ==
    IF ~df.isdf \/ Empty(df) THEN Returned(<<Err("valid_err_empty", {}, <<>>)>>)
    ELSE LET missing_cols == InputCols \ df.cols
             duplicates == DuplicateNames(df)
         IN  IF MissingColsStop(missing_cols)
             THEN Returned(<<Err("valid_err_missing_cols", missing_cols, <<>>)>>)
             ELSE IF \E k \in DOMAIN duplicates : duplicates[k] = NullName
                  THEN [raised |-> TRUE, valid |-> FALSE, errors |-> <<>>]
             ELSE Returned(
                    (IF HasEmptyName(df)
                     THEN <<Err("valid_err_empty_name", {}, <<>>)>> ELSE <<>>)
                    \o (IF duplicates # <<>>
                        THEN <<Err("valid_err_duplicate_name", {}, duplicates)>> ELSE <<>>)
                    \o NumericErrors(df, COL_EXPECTED_CASES, "cases")
                    \o NumericErrors(df, COL_VAR_COST, "var_cost")
                    \o NumericErrors(df, COL_DURATION, "duration"))

----------------------------------------------------------------------------
(* SpecValidate: validate_service_data on valid and invalid collections *)

NameVals == {<<"A">>, <<"a">>, <<" ">>, NullName}

AnyRows(i) ==
    [name : NameVals,
     cases : {Num(R(1)), Num(R(-1)), Text(NaN)},
     var_cost : {Num(R(3)), Num(R(-1))},
     duration : {Num(R(1)), Num(R(0))}]

\* Tables with every column, and one-row tables that lack one column (the
\* cells of a column that is missing are never read).
AnyCollections ==
    {DF(InputCols, s) : s \in UNION {RowSeqs(n, [i \in 1..n |-> AnyRows(i)]) : n \in 0..MaxServices}}
        \cup {DF(InputCols \ {c}, s) : c \in InputCols, s \in RowSeqs(1, [i \in 1..1 |-> AnyRows(i)])}
        \cup {NoneDF}

InitValidate ==
    /\ ShellIdle
    /\ arg \in [df : AnyCollections]
    /\ ret = [raised |-> FALSE, valid |-> FALSE, errors |-> <<>>]
    /\ pc = "input"

CallValidate ==
    /\ pc = "input"
    /\ ret' = validate_service_data(arg.df)
    /\ pc' = "validate_service_data"
    /\ UNCHANGED <<arg, shellVars>>

NextValidate == CallValidate

SpecValidate == InitValidate /\ [][NextValidate]_vars

Validated == pc = "validate_service_data"

\* The kinds of violation of a table, as <<kind, columns>>.
NumCols == {<<COL_EXPECTED_CASES, "cases">>, <<COL_VAR_COST, "var_cost">>,
            <<COL_DURATION, "duration">>}

HasNonNumeric(df, c) ==
    c[1] \in df.cols /\ \E i \in DOMAIN df.rows : IsNaN(to_numeric(df.rows[i][c[2]]))

HasOutOfRange(df, c) ==
    /\ c[1] \in df.cols
    /\ \E i \in DOMAIN df.rows :
          IF c[1] = COL_DURATION THEN Le(to_numeric(df.rows[i][c[2]]), R(0))
          ELSE Lt(to_numeric(df.rows[i][c[2]]), R(0))

RangeKind(c) == IF c[1] = COL_DURATION THEN "valid_err_zero_dur" ELSE "valid_err_negative"

HasDuplicateName(df) ==
    /\ COL_NAME_EN \in df.cols
    /\ \E i, j \in DOMAIN df.rows : i # j /\ df.rows[i].name = df.rows[j].name

\* Blank: None, empty or whitespace only.
HasBlankName(df) ==
    /\ COL_NAME_EN \in df.cols
    /\ \E i \in DOMAIN df.rows :
          df.rows[i].name = NullName \/ Strip(df.rows[i].name) = <<>>

\* Blank as a text: empty or whitespace only.
HasBlankText(df) ==
    /\ COL_NAME_EN \in df.cols
    /\ \E i \in DOMAIN df.rows :
          df.rows[i].name # NullName /\ Strip(df.rows[i].name) = <<>>

Violations(df) ==
    (IF ~df.isdf \/ df.rows = <<>> THEN {<<"valid_err_empty", {}>>} ELSE {})
    \cup (IF df.isdf /\ InputCols \ df.cols # {}
          THEN {<<"valid_err_missing_cols", InputCols \ df.cols>>} ELSE {})
    \cup (IF HasBlankName(df) THEN {<<"valid_err_empty_name", {}>>} ELSE {})
    \cup (IF HasDuplicateName(df) THEN {<<"valid_err_duplicate_name", {}>>} ELSE {})
    \cup {<<"valid_err_non_numeric", {c[1]}>> : c \in {x \in NumCols : HasNonNumeric(df, x)}}
    \cup {<<RangeKind(c), {c[1]}>> : c \in {x \in NumCols : HasOutOfRange(df, x)}}

Reported(r) == {<<r.errors[k].kind, r.errors[k].cols>> : k \in DOMAIN r.errors}

\* C5 as stated: one error for each kind of violation present, none omitted.
C5_Exhaustive ==
    Validated =>
        /\ ~ret.raised
        /\ Reported(ret) = Violations(arg.df)
        /\ Len(ret.errors) = Cardinality(Violations(arg.df))

\* C5, amended: an empty table or a missing required column is reported alone;
\* otherwise the call raises when two rows both lack a name, and else returns
\* one error for each kind of violation present, except that a numeric column
\* holding a value that is no number gets the non-numeric error only, and that
\* a name counts as blank only as a text (empty or whitespace only).
C5_Reported ==
    Validated =>
        LET df == arg.df
            nullTwice == \E i, j \in DOMAIN df.rows :
                            i # j /\ df.rows[i].name = NullName
                                  /\ df.rows[j].name = NullName
            expected ==
                (Violations(df)
                   \ ({<<RangeKind(c), {c[1]}>> : c \in {x \in NumCols : HasNonNumeric(df, x)}}
                      \cup {<<"valid_err_empty_name", {}>>}))
                \cup (IF HasBlankText(df) THEN {<<"valid_err_empty_name", {}>>} ELSE {})
        IN  IF ~df.isdf \/ Empty(df)
            THEN ~ret.raised /\ Reported(ret) = {<<"valid_err_empty", {}>>}
            ELSE IF InputCols \ df.cols # {}
            THEN ~ret.raised
                 /\ Reported(ret) = {<<"valid_err_missing_cols", InputCols \ df.cols>>}
            ELSE IF nullTwice THEN ret.raised
            ELSE /\ ~ret.raised
                 /\ Reported(ret) = expected
                 /\ Len(ret.errors) = Cardinality(expected)
                 /\ ret.valid = (expected = {})

\* Four kinds of violation in one table, each reported.
C5_Witness ==
    /\ Validated
    /\ Len(arg.df.rows) = 2
    /\ Reported(ret) = {<<"valid_err_empty_name", {}>>, <<"valid_err_duplicate_name", {}>>,
                        <<"valid_err_negative", {COL_VAR_COST}>>,
                        <<"valid_err_zero_dur", {COL_DURATION}>>}

\* The display names that two or more rows carry, compared exactly.
RepeatedNames(df) ==
    {df.rows[i].name : i \in {k \in DOMAIN df.rows :
                                \E j \in DOMAIN df.rows : j # k /\ df.rows[j].name = df.rows[k].name}}

DuplicateErrors(r) == SelectSeq(r.errors, LAMBDA e : e.kind = "valid_err_duplicate_name")

\* C17: for a table that has rows and every required column the validator
\* returns, with the duplicate-name error exactly when two rows carry the same
\* display name compared exactly and case-sensitively; the error lists the
\* repeated names, each once.
C17_DuplicatesExact ==
    Validated /\ ~Empty(arg.df) /\ InputCols \subseteq arg.df.cols =>
        /\ ~ret.raised
        /\ (DuplicateErrors(ret) # <<>>) = (RepeatedNames(arg.df) # {})
        /\ RepeatedNames(arg.df) # {} =>
              /\ ~ret.valid
              /\ Len(DuplicateErrors(ret)) = 1
              /\ LET names == DuplicateErrors(ret)[1].names
                 IN  /\ {names[k] : k \in DOMAIN names} = RepeatedNames(arg.df)
                     /\ Len(names) = Cardinality(RepeatedNames(arg.df))

\* C18: a collection with a blank display name (empty, whitespace only or
\* null) is rejected, never reported valid.
C18_BlankRejected ==
    Validated /\ HasBlankName(arg.df) => ~ret.raised /\ ~ret.valid

----------------------------------------------------------------------------
(* SpecCoerce: calculate_detailed_pricing on collections that fail validation *)

InvalidRows(i) ==
    [name : {ServiceNames[i]},
     cases : {Num(R(1)), Num(R(-1)), Text(NaN)},
     var_cost : {Num(R(3)), Num(R(-1)), NoneCell},
     duration : {Num(R(1)), Num(R(0)), NoneCell}]

UncheckedCollections ==
    {DF(InputCols, s) : s \in UNION {RowSeqs(n, [i \in 1..n |-> InvalidRows(i)]) : n \in 0..MaxServices}}
        \cup {DF(InputCols \ {c}, s) : c \in InputCols, s \in RowSeqs(1, [i \in 1..1 |-> InvalidRows(i)])}
        \cup {NoneDF}

InitCoerce ==
    /\ ShellIdle
    /\ arg \in [df : UncheckedCollections, total_fixed_cost : FixedCostVals,
                margin : {R(0), Q(1, 2)}]
    /\ ret = NoneDF
    /\ pc = "input"

NextCoerce == CallPricing

SpecCoerce == InitCoerce /\ [][NextCoerce]_vars

\* A numeric field that is no number or missing, a duration <= 0, or a
\* negative expected_cases or variable_cost.
InvalidNumbers(df) ==
    \/ ~df.isdf
    \/ {COL_EXPECTED_CASES, COL_VAR_COST, COL_DURATION} \ df.cols # {}
    \/ \E c \in NumCols : HasNonNumeric(df, c) \/ HasOutOfRange(df, c)

----------------------------------------------------------------------------
(* SpecFrame: calculate_detailed_pricing on table objects.  A heap is a     *)
(* sequence of tables, a reference an index into it and 0 is None; the      *)
(* caller's table is object 1.                                              *)

InputRef(df) == IF df.isdf THEN 1 ELSE 0

\* Mutant: calc_df is the caller's object itself.
DataFrameCopy_Alias(heap, ref) == [ref |-> ref, heap |-> heap]

\* Line 482: DataFrame.copy() makes a new object with the same contents.
DataFrameCopy(heap, ref) == [ref |-> Len(heap) + 1, heap |-> Append(heap, heap[ref])]

\* Lines 486-494: the columns that are present are overwritten with their
\* coerced values.
CoerceInPlace(df) ==
    [df EXCEPT !.rows =
        [i \in DOMAIN df.rows |->
            [df.rows[i] EXCEPT
                !.cases = IF COL_EXPECTED_CASES \in df.cols THEN Num(CoerceCases(@)) ELSE @,
                !.var_cost = IF COL_VAR_COST \in df.cols THEN Num(CoerceVarCost(@)) ELSE @,
                !.duration = IF COL_DURATION \in df.cols THEN Num(CoerceDuration(@)) ELSE @]]]

\* Lines 477-560 on objects: every assignment goes to calc_df, which is
\* returned, or dropped when a required column is missing.
PricingOnHeap(heap, ref, total_fixed_cost, margin) ==
    IF ref = 0 \/ Empty(heap[ref]) THEN [ref |-> 0, heap |-> heap]
    ELSE LET c == DataFrameCopy(heap, ref)
             calc_df == c.ref
             res == calculate_detailed_pricing(c.heap[calc_df], total_fixed_cost, margin)
         IN  IF res.isdf
             THEN [ref |-> calc_df, heap |-> [c.heap EXCEPT ![calc_df] = res]]
             ELSE [ref |-> 0, heap |-> [c.heap EXCEPT ![calc_df] = CoerceInPlace(@)]]

InitFrame ==
    /\ ShellIdle
    /\ arg \in [df : UncheckedCollections, total_fixed_cost : {R(12)}, margin : {Q(1, 2)}]
    /\ ret = [ref |-> 0, heap |-> IF arg.df.isdf THEN <<arg.df>> ELSE <<>>]
    /\ pc = "input"

CallFrame ==
    /\ pc = "input"
    /\ ret' = PricingOnHeap(ret.heap, InputRef(arg.df), arg.total_fixed_cost, arg.margin)
    /\ pc' = "calculate_detailed_pricing"
    /\ UNCHANGED <<arg, shellVars>>

\* The caller changes the table it got back: the first name, or the first
\* row is dropped.
ModifyReturned ==
    /\ pc = "calculate_detailed_pricing"
    /\ ret.ref # 0
    /\ \/ ret' = [ret EXCEPT !.heap[ret.ref].rows[1].name = <<"Z">>]
       \/ ret' = [ret EXCEPT !.heap[ret.ref].rows = Tail(@)]
    /\ pc' = "modified"
    /\ UNCHANGED <<arg, shellVars>>

NextFrame == CallFrame \/ ModifyReturned

SpecFrame == InitFrame /\ [][NextFrame]_vars

\* C15: after the call, and after a later change of the returned table, the
\* caller's table has the rows, columns and values it had before; the returned
\* table is another object, holding the pricing of the input.
C15_InputNotMutated ==
    pc # "input" =>
        /\ arg.df.isdf => ret.heap[1] = arg.df
        /\ ret.ref # 0 => ret.ref # InputRef(arg.df)
        /\ pc = "calculate_detailed_pricing" =>
              LET res == calculate_detailed_pricing(arg.df, arg.total_fixed_cost, arg.margin)
              IN  /\ (ret.ref # 0) = res.isdf
                  /\ ret.ref # 0 => ret.heap[ret.ref] = res

\* A two-row table was priced, the returned table was changed afterwards and
\* the input still is what it was.
C15_Witness ==
    /\ pc = "modified"
    /\ Len(arg.df.rows) = 2
    /\ ret.ref = 2
    /\ ret.heap[2] # calculate_detailed_pricing(arg.df, arg.total_fixed_cost, arg.margin)
    /\ ret.heap[1] = arg.df

----------------------------------------------------------------------------
(* The Streamlit shell: one action is one run of the script, started by one *)
(* interaction of the user with one widget.                                 *)

FixedCostKeys == {"rent", "salaries", "utilities", "insurance", "marketing", "other_fixed"}

\* Lines 331-340: get_default_settings.
DefaultSettings ==
    [rent |-> R(15000), salaries |-> R(25000), utilities |-> R(5000),
     insurance |-> R(2000), marketing |-> R(1500), other_fixed |-> R(1000),
     base_margin |-> Q(35, 100)]

\* Lines 342-362: get_default_services, the first two of its ten rows, "A"
\* for "Scaling & Polishing" and "B" for "Composite Filling".
DefaultServices ==
    DF(InputCols,
       << [name |-> <<"A">>, cases |-> Num(R(80)), var_cost |-> Num(R(100)),
           duration |-> Num(Q(3, 4))],
          [name |-> <<"B">>, cases |-> Num(R(60)), var_cost |-> Num(R(200)),
           duration |-> Num(R(1))] >>)

\* What the sidebar inputs can be set to: one of the six number inputs is
\* moved between two values, the slider between two positions.
SidebarCostVals == [rent |-> {R(15000), R(16000)}]

MarginSliderVals == {Q(35, 100), Q(1, 2)}

\* What a cell of st.data_editor can hold under column_config_editor: a name
\* is required (never None), expected_cases >= 0, variable_cost >= 0 and
\* duration >= 0.01.
EditorNames == {<<"A">>, <<" ">>}

EditorCases == {Num(R(0))}

EditorRows ==
    [name : EditorNames, cases : EditorCases, var_cost : {Num(R(100))},
     duration : {Num(R(1))}]

\* One edit of the table: a row appended (the table grows to the size of the
\* default table at most), a row deleted, or one cell changed.
RemoveAt(s, i) == SubSeq(s, 1, i - 1) \o SubSeq(s, i + 1, Len(s))

EditsOf(df) ==
    {[df EXCEPT !.rows = Append(@, r)] :
        r \in IF Len(df.rows) < Len(DefaultServices.rows) THEN EditorRows ELSE {}}
    \cup {[df EXCEPT !.rows = RemoveAt(@, i)] : i \in DOMAIN df.rows}
    \cup {[df EXCEPT !.rows[i].name = n] : i \in DOMAIN df.rows, n \in EditorNames}
    \cup {[df EXCEPT !.rows[i].cases = c] : i \in DOMAIN df.rows, c \in EditorCases}

\* Lines 743, 820, 910, 945, 1044: the pool is the sum of the six categories.
TotalFixedCost(s) ==
    Add(s.rent, Add(s.salaries, Add(s.utilities,
        Add(s.insurance, Add(s.marketing, s.other_fixed)))))

\* Lines 402-414
save_app_data(s, services_df) == [exists |-> TRUE, settings |-> s, services |-> services_df]

NoCall ==
    [called |-> FALSE, variable_cost |-> R(0), allocated_fixed_cost |-> R(0),
     margin |-> R(0), cases_range |-> <<>>]

\* range(start, stop, step) for step > 0
RECURSIVE PyRange(_, _, _)
PyRange(start, stop, step) ==
    IF start >= stop THEN <<>> ELSE <<Num(R(start))>> \o PyRange(start + step, stop, step)

\* int(x * 0.2) and int(x * 2.0) of an integer x >= 0
IntTimes(x, f) == Trunc(Mul(x, f))[1]

\* Line 1276: value=max(1, int(expected_cases_display * 0.2))
DefaultMinCases(expected_cases_display) ==
    IF IntTimes(expected_cases_display, Q(1, 5)) > 1
    THEN IntTimes(expected_cases_display, Q(1, 5)) ELSE 1

\* Line 1277: value=int(expected_cases_display * 2.0)
DefaultMaxCases(expected_cases_display) == IntTimes(expected_cases_display, R(2))

\* Lines 1252-1296: the sensitivity tab for service k, with the range inputs
\* at their defaults.  st.number_input raises when its value is
\* below its min_value, and the script run ends there.
SensitivityTab(res, s, k) ==
    LET service_data_sens == res.rows[k]
        expected_cases_display == service_data_sens.cases
        min_cases == DefaultMinCases(expected_cases_display)
        max_cases == DefaultMaxCases(expected_cases_display)
        span == (max_cases - min_cases) \div 10
        step_cases == IF max_cases - min_cases > 0 /\ span > 1 THEN span ELSE 1
    IN  IF max_cases < min_cases + 1 THEN NoCall
        ELSE [called |-> TRUE,
              variable_cost |-> service_data_sens.var_cost,
              allocated_fixed_cost |-> service_data_sens.alloc_fixed_cost,
              margin |-> s.base_margin,
              cases_range |-> PyRange(min_cases, max_cases + 1, step_cases)]

\* Lines 1038-1040: the analysis tab shows only with a calculated, non-empty result.
AnalysisShown(calc, res) == calc /\ res.isdf /\ ~Empty(res)

\* The rest of a script run after the state updates: the record of the
\* engine call of this run and of the sensitivity call its last tab makes, the
\* select box at its default (the first service).
RunTrace(op, engine_input, calc, res, s) ==
    [op |-> op, engine_input |-> engine_input,
     sens |-> IF AnalysisShown(calc, res) THEN SensitivityTab(res, s, 1) ELSE NoCall]

\* Lines 416-429, no data file: load_app_data returns the defaults.
Init ==
    /\ lang = "ar"
    /\ settings = DefaultSettings
    /\ services = DefaultServices
    /\ results = NoneDF
    /\ calculated = FALSE
    /\ sim_results = NoneDF
    /\ file = [exists |-> FALSE, settings |-> DefaultSettings, services |-> NoneDF]
    /\ used = [total_fixed_cost |-> R(0), margin |-> R(0)]
    /\ trace = [op |-> "other", engine_input |-> NoneDF, sens |-> NoCall]
    /\ arg = <<>>
    /\ ret = <<>>
    /\ pc = "shell"

\* Lines 708-718: the language radio.
SwitchLanguage ==
    \E l \in {"en", "ar"} :
        /\ l # lang
        /\ lang' = l
        /\ trace' = RunTrace("other", NoneDF, calculated, results, settings)
        /\ UNCHANGED <<settings, services, results, calculated, sim_results, file, used, fnVars>>

\* Lines 731-782: a number input or the slider differs from the stored
\* settings; the settings are replaced and everything is saved.
SettingsChanged(current_settings) ==
    /\ current_settings # settings
    /\ settings' = current_settings
    /\ file' = save_app_data(current_settings, services)
    /\ trace' = RunTrace("other", NoneDF, calculated, results, current_settings)
    /\ UNCHANGED <<lang, services, results, calculated, sim_results, used, fnVars>>

ChangeFixedCost ==
    \E key \in DOMAIN SidebarCostVals : \E v \in SidebarCostVals[key] :
        SettingsChanged([settings EXCEPT ![key] = v])

MoveMarginSlider ==
    \E current_margin \in MarginSliderVals :
        SettingsChanged([settings EXCEPT !.base_margin = current_margin])

\* Mutant: an edit leaves the old results in place.
ClearOldResults_Kept(calc, res, sim) ==
    [calculated |-> calc, results |-> res, sim_results |-> sim]

\* Mutant: an edit leaves the stored simulation in place.
ClearOldResults_SimKept(calc, res, sim) ==
    [calculated |-> FALSE, results |-> NoneDF, sim_results |-> sim]

\* Lines 865-868: "Clear old results as input data has changed".
ClearOldResults(calc, res, sim) ==
    [calculated |-> FALSE, results |-> NoneDF, sim_results |-> NoneDF]

\* Lines 851-869: the editor returns a table that differs from the stored one.
EditServices ==
    \E edited_df \in EditsOf(services) :
        /\ edited_df # services
        /\ services' = edited_df
        /\ file' = save_app_data(settings, edited_df)
        /\ calculated' = ClearOldResults(calculated, results, sim_results).calculated
        /\ results' = ClearOldResults(calculated, results, sim_results).results
        /\ sim_results' = ClearOldResults(calculated, results, sim_results).sim_results
        /\ trace' = RunTrace("other", NoneDF, FALSE, NoneDF, settings)
        /\ UNCHANGED <<lang, settings, used, fnVars>>

\* Lines 875, 891: the button is disabled for an invalid or empty table.
CalculateButtonDisabled(edited_df) ==
    ~validate_service_data(edited_df).valid \/ Empty(edited_df)

\* Line 902
ValidOnCalc(df) == validate_service_data(df).valid

\* Lines 900-926: the calculate button was clicked.
ClickCalculate ==
    /\ ~validate_service_data(services).raised
    /\ ~CalculateButtonDisabled(services)
    /\ IF ~ValidOnCalc(services)
       THEN /\ trace' = RunTrace("calculate", NoneDF, calculated, results, settings)
            /\ UNCHANGED <<results, calculated, sim_results, used>>
       ELSE LET calc_total_fixed == TotalFixedCost(settings)
                calc_margin == settings.base_margin
                res == calculate_detailed_pricing(services, calc_total_fixed, calc_margin)
            IN  IF res.isdf
                THEN /\ results' = res
                     /\ calculated' = TRUE
                     /\ sim_results' = NoneDF
                     /\ used' = [total_fixed_cost |-> calc_total_fixed,
                                 margin |-> calc_margin]
                     /\ trace' = RunTrace("calculate", services, TRUE, res, settings)
                ELSE /\ calculated' = FALSE
                     /\ trace' = RunTrace("calculate", services, FALSE, results, settings)
                     /\ UNCHANGED <<results, sim_results, used>>
    /\ UNCHANGED <<lang, settings, services, file, fnVars>>

\* What the simulation form can submit: the global inputs at their defaults
\* (the base pool and margin) or both moved, and for the selected service the
\* three number inputs within their min_value.
SimGlobalVals(base_fixed_cost, base_margin) ==
    {[fixed_cost |-> base_fixed_cost, margin |-> base_margin],
     [fixed_cost |-> R(0), margin |-> Q(1, 2)]}

SimOverrideVals == [var_cost : {R(100)}, cases : {R(0), R(80)}, duration : {R(1)}]

\* Lines 1106-1108: index of the first input row with the selected name, 0 if none.
ServiceIndex(df, name) ==
    IF \E i \in DOMAIN df.rows : df.rows[i].name = name
    THEN CHOOSE i \in DOMAIN df.rows :
            /\ df.rows[i].name = name
            /\ \A j \in DOMAIN df.rows : df.rows[j].name = name => i <= j
    ELSE 0

\* Mutant: the overrides are applied to every row of the copy.
SimServices_AllRows(df, modified_service_idx, ov) ==
    IF modified_service_idx = 0 THEN df
    ELSE [df EXCEPT !.rows = [i \in DOMAIN df.rows |->
            [df.rows[i] EXCEPT !.var_cost = Num(ov.var_cost),
                               !.cases = Num(ov.cases),
                               !.duration = Num(ov.duration)]]]

\* Lines 1125-1130: the copy of the stored table with the overrides applied.
SimServices(df, modified_service_idx, ov) ==
    IF modified_service_idx = 0 THEN df
    ELSE [df EXCEPT !.rows[modified_service_idx] =
            [@ EXCEPT !.var_cost = Num(ov.var_cost),
                      !.cases = Num(ov.cases),
                      !.duration = Num(ov.duration)]]

\* Line 1133
SimIsValid(df) == validate_service_data(df).valid

\* Mutant: the overrides are written to the stored table itself.
StoredAfterOverrides_Alias(df, sim_services_df) == sim_services_df

\* Line 1125: the overrides of lines 1128-1130 are written to a copy, so the
\* stored table holds what it held.
StoredAfterOverrides(df, sim_services_df) == df

\* Lines 1081-1148: the simulation form was submitted.  sel = 0 is the
\* option "none".
SubmitSimulation ==
    /\ AnalysisShown(calculated, results)
    /\ services.isdf
    /\ \E g \in SimGlobalVals(TotalFixedCost(settings), settings.base_margin),
          sel \in 0..Len(results.rows),
          ov \in SimOverrideVals :
          LET sim_fixed_cost == g.fixed_cost
              sim_margin == g.margin
              modified_service_idx ==
                  IF sel = 0 \/ Empty(services) THEN 0
                  ELSE ServiceIndex(services, results.rows[sel].name)
              sim_services_df == SimServices(services, modified_service_idx, ov)
          IN  /\ ~validate_service_data(sim_services_df).raised
              /\ services' = StoredAfterOverrides(services, sim_services_df)
              /\ IF ~SimIsValid(sim_services_df)
                 THEN /\ sim_results' = NoneDF
                      /\ trace' = RunTrace("simulate", NoneDF, calculated, results, settings)
                 ELSE /\ sim_results' =
                            calculate_detailed_pricing(sim_services_df, sim_fixed_cost,
                                                       sim_margin)
                      /\ trace' = RunTrace("simulate", sim_services_df, calculated,
                                             results, settings)
    /\ UNCHANGED <<lang, settings, results, calculated, file, used, fnVars>>

Next ==
    \/ SwitchLanguage
    \/ ChangeFixedCost
    \/ MoveMarginSlider
    \/ EditServices
    \/ ClickCalculate
    \/ SubmitSimulation

Spec == Init /\ [][Next]_vars

----------------------------------------------------------------------------
(* SpecReset: the shell with the reset button.                              *)

\* Line 787: the checkbox is created inside the branch of the button.  Its
\* state is dropped by every run that does not draw it, so it is a new widget
\* in every run that reaches it and returns its default.
ResetConfirmValue == FALSE

\* Lines 785-802: the run started by a click on the reset button.  The button
\* reads true in this run only; the checkbox is drawn and read in it.
PressReset ==
    LET confirm == ResetConfirmValue
    IN  IF confirm
        THEN /\ settings' = DefaultSettings
             /\ services' = DefaultServices
             /\ results' = NoneDF
             /\ calculated' = FALSE
             /\ sim_results' = NoneDF
             /\ file' = [exists |-> FALSE, settings |-> DefaultSettings, services |-> NoneDF]
             /\ trace' = RunTrace("reset", NoneDF, FALSE, NoneDF, DefaultSettings)
             /\ UNCHANGED <<lang, used, fnVars>>
        ELSE /\ trace' = RunTrace("reset_button", NoneDF, calculated, results, settings)
             /\ UNCHANGED <<lang, settings, services, results, calculated, sim_results,
                            file, used, fnVars>>

\* Lines 785-787: the run started by a tick of the checkbox, which is on the
\* page only after a run in which the button read true.  In this run the
\* button reads false, so the branch of line 785 is skipped.
TickConfirm ==
    /\ trace.op = "reset_button"
    /\ trace' = RunTrace("reset_confirm", NoneDF, calculated, results, settings)
    /\ UNCHANGED <<lang, settings, services, results, calculated, sim_results,
                   file, used, fnVars>>

\* The runs of a user who changes inputs and is after a reset; no run of
\* this specification presses Calculate or submits a simulation.
NextReset ==
    \/ SwitchLanguage
    \/ ChangeFixedCost
    \/ MoveMarginSlider
    \/ EditServices
    \/ PressReset
    \/ TickConfirm

\* A user who is after the reset keeps pressing the button and ticking the box.
SpecReset == Init /\ [][NextReset]_vars /\ WF_vars(PressReset \/ TickConfirm)

\* C21: once the user has pressed the reset button and ticked the
\* confirmation, the session is eventually reset to the defaults.
C21_ResetReachable == (trace.op = "reset_confirm") ~> (trace.op = "reset")


----------------------------------------------------------------------------
(* Claims about the shell (Spec) *)

\* C2: whenever the calculated flag is true the stored base results are the
\* pricing of the stored services under the current pool and margin.
C2_NeverStale ==
    calculated =>
        results = calculate_detailed_pricing(services, TotalFixedCost(settings),
                                             settings.base_margin)

\* C3: every call of calculate_sensitivity passes the variable cost and the
\* allocated fixed cost of the most recent pricing run and the margin used in
\* that run.
C3_SensitivityUsesRunMargin ==
    trace.sens.called =>
        /\ trace.sens.variable_cost = results.rows[1].var_cost
        /\ trace.sens.allocated_fixed_cost = results.rows[1].alloc_fixed_cost
        /\ trace.sens.margin = used.margin

\* C7: the engine is only ever called on a table without violations; the
\* calculate button is disabled exactly for an invalid or empty table, a run
\* started by it prices the stored table only, and a simulation prices the
\* overridden copy only when it is valid.
C7_EngineOnlyOnValid ==
    /\ CalculateButtonDisabled(services) = (Violations(services) # {} \/ Empty(services))
    /\ trace.engine_input.isdf =>
          /\ Violations(trace.engine_input) = {}
          /\ validate_service_data(trace.engine_input).valid
    /\ trace.op = "calculate" => Violations(services) = {} /\ trace.engine_input = services
    /\ Violations(services) # {} => ~calculated /\ ~results.isdf /\ ~sim_results.isdf

\* A simulation that priced an overridden copy of the stored table.
C7_Witness ==
    /\ trace.op = "simulate"
    /\ trace.engine_input.isdf
    /\ trace.engine_input # services
    /\ sim_results.isdf
    /\ Violations(trace.engine_input) = {}

\* C19: a script run that submits the simulation form leaves the stored
\* services, the settings, the base results, the calculated flag and the data
\* file as they were.
C19_SimulationFrame ==
    [][trace'.op = "simulate" =>
          UNCHANGED <<services, settings, results, calculated, file>>]_vars

\* A simulation with an override of the first service's cases was priced
\* while the stored table and the base results are those of the last run.
C19_Witness ==
    /\ trace.op = "simulate"
    /\ sim_results.isdf
    /\ trace.engine_input.rows[1].cases # services.rows[1].cases
    /\ calculated
    /\ results = calculate_detailed_pricing(services, used.total_fixed_cost, used.margin)
    /\ sim_results # results

\* Lines 940-945: the totals of the KPI row.
KpiTotalRevenue(results_df) == SumOf(results_df, "revenue_expected")

KpiTotalProfit(results_df) == SumOf(results_df, "profit_expected")

KpiTotalVarCost(results_df) ==
    SumSeq([i \in DOMAIN results_df.rows |->
              Mul(results_df.rows[i].var_cost, results_df.rows[i].cases)])

KpiTotalFixedCostUsed(s) == TotalFixedCost(s)

\* C20: whenever the KPI row is shown, the total projected profit is the
\* total revenue minus the total variable costs minus the total fixed costs.
C20_ProfitIdentity ==
    AnalysisShown(calculated, results) =>
        KpiTotalProfit(results) =
            Sub(Sub(KpiTotalRevenue(results), KpiTotalVarCost(results)),
                KpiTotalFixedCostUsed(settings))

\* The input fields a result row carries are those of the stored input row.
CarriesInputs(res_row, in_row) ==
    /\ res_row.name = in_row.name
    /\ in_row.cases = Num(res_row.cases)
    /\ in_row.var_cost = Num(res_row.var_cost)
    /\ in_row.duration = Num(res_row.duration)

\* C22: whenever the calculated flag is true, the stored base results have
\* one row per stored service, in the same order, and the name,
\* expected_cases, variable_cost and duration_hours each row carries are
\* those of the stored service collection: an edit leaves no result behind.
C22_ResultsMatchServices ==
    calculated =>
        /\ results.isdf /\ services.isdf
        /\ Len(results.rows) = Len(services.rows)
        /\ \A i \in DOMAIN results.rows : CarriesInputs(results.rows[i], services.rows[i])

\* A calculation made after an edit of the default collection.
C22_Witness ==
    /\ calculated
    /\ results.isdf
    /\ services # DefaultServices
    /\ \A i \in DOMAIN results.rows : CarriesInputs(results.rows[i], services.rows[i])

\* Two result rows carry the same input fields.
SameInputs(r1, r2) ==
    /\ r1.name = r2.name
    /\ r1.cases = r2.cases
    /\ r1.var_cost = r2.var_cost
    /\ r1.duration = r2.duration

\* C23: whenever simulation results are stored, base results are stored
\* too, both have the services of the stored collection in the same order,
\* and the inputs the simulation rows carry differ from those of the base
\* rows in at most one service, and there only in expected_cases,
\* variable_cost and duration_hours.
C23_SimulationFromBaseInputs ==
    sim_results.isdf =>
        /\ results.isdf /\ services.isdf
        /\ Len(sim_results.rows) = Len(results.rows)
        /\ Len(sim_results.rows) = Len(services.rows)
        /\ \A i \in DOMAIN sim_results.rows :
              /\ sim_results.rows[i].name = results.rows[i].name
              /\ CarriesInputs(results.rows[i], services.rows[i])
        /\ \E k \in DOMAIN sim_results.rows :
              \A i \in DOMAIN sim_results.rows \ {k} :
                  SameInputs(sim_results.rows[i], results.rows[i])

\* A stored simulation of two services, one of them with overridden inputs.
C23_Witness ==
    /\ sim_results.isdf
    /\ results.isdf
    /\ Len(sim_results.rows) = 2
    /\ \E k \in DOMAIN sim_results.rows :
          /\ ~SameInputs(sim_results.rows[k], results.rows[k])
          /\ \A i \in DOMAIN sim_results.rows \ {k} :
                SameInputs(sim_results.rows[i], results.rows[i])

\* C29: for every service of a stored base result, one with expected_cases
\* = 0 included, the default of the max_cases input is at least its
\* min_value, min_cases + 1, so that the sensitivity tab opens for it.
C29_DefaultRangeFits ==
    AnalysisShown(calculated, results) =>
        \A k \in DOMAIN results.rows :
            DefaultMaxCases(results.rows[k].cases)
                >= DefaultMinCases(results.rows[k].cases) + 1

\* C30: in every state of the shell, a true calculated flag comes with a
\* stored, non-empty base result table, and simulation results are stored
\* only while the calculated flag is true.
C30_FlagAndResults ==
    /\ calculated => results.isdf /\ ~Empty(results)
    /\ sim_results.isdf => calculated

\* A simulation stored on top of base results, after an edit and a new
\* calculation.
C30_Witness ==
    /\ calculated
    /\ results.isdf /\ ~Empty(results)
    /\ sim_results.isdf
    /\ services # DefaultServices
    /\ trace.op = "simulate"

----------------------------------------------------------------------------
(* Further claims about the engine (SpecPricing) *)

\* C24: every collection the validator accepts is priced with exactly the
\* values entered: the result rows carry the name, expected_cases,
\* variable_cost and duration_hours of the input rows unchanged.
C24_PricedAsEntered ==
    Priced /\ validate_service_data(arg.df).valid =>
        /\ ret.isdf
        /\ Len(ret.rows) = Len(arg.df.rows)
        /\ \A i \in DOMAIN ret.rows : CarriesInputs(ret.rows[i], arg.df.rows[i])

\* The pool and the margin of the call are not negative.
NonNegativeCall == Le(R(0), arg.total_fixed_cost) /\ Le(R(0), arg.margin)

----------------------------------------------------------------------------
(* SpecBaseVolume: the sensitivity of a priced service at its own volume *)

\* calculate_sensitivity called with the variable cost and the allocation of
\* a row of the pricing result, the margin of the pricing call and the one
\* case count the row expects.
CallSensitivityAtBase ==
    /\ pc = "calculate_detailed_pricing"
    /\ ret.isdf
    /\ \E i \in DOMAIN ret.rows :
          /\ Gt(ret.rows[i].cases, R(0))
          /\ arg' = [variable_cost |-> ret.rows[i].var_cost,
                     allocated_fixed_cost |-> ret.rows[i].alloc_fixed_cost,
                     margin |-> arg.margin,
                     cases_range |-> <<Num(ret.rows[i].cases)>>,
                     service |-> ret.rows[i]]
          /\ ret' = calculate_sensitivity(ret.rows[i].var_cost,
                                          ret.rows[i].alloc_fixed_cost, arg.margin,
                                          <<Num(ret.rows[i].cases)>>)
    /\ pc' = "calculate_sensitivity"
    /\ UNCHANGED shellVars

NextBaseVolume == CallPricing \/ CallSensitivityAtBase

SpecBaseVolume == InitPricing /\ [][NextBaseVolume]_vars

\* C25: for a service of a pricing result with expected_cases > 0, the
\* sensitivity computed at the one case count expected_cases returns the
\* service's price_per_case and its break_even_cases.
C25_SensitivityAtBase ==
    pc = "calculate_sensitivity" =>
        /\ ~ret.raised
        /\ ret.prices = <<arg.service.price_per_case>>
        /\ ret.break_evens = <<arg.service.break_even>>

\* A service with a positive share of the pool and a finite break-even.
C25_Witness ==
    /\ pc = "calculate_sensitivity"
    /\ Gt(arg.service.alloc_fixed_cost, R(0))
    /\ Gt(arg.service.cases, R(1))
    /\ ret.prices = <<arg.service.price_per_case>>
    /\ ret.break_evens = <<arg.service.break_even>>
    /\ IsFinite(arg.service.break_even)

----------------------------------------------------------------------------
(* SpecFloat: the engine in binary floating point *)

\* Significant bits of the model's floats (float64 has 53).
FloatBits == 8

RECURSIVE Pow2(_)
Pow2(k) == IF k = 0 THEN 1 ELSE 2 * Pow2(k - 1)

\* The integer nearest to a / d, ties to the even one (a >= 0, d > 0).
RoundHalfEven(a, d) ==
    LET q == a \div d
        r == a % d
    IN  IF 2 * r > d \/ (2 * r = d /\ q % 2 = 1) THEN q + 1 ELSE q

\* The float nearest to a * up / (d * down), a, d > 0: the fraction is
\* scaled by powers of two until its integer part has FloatBits bits, then
\* rounded.
RECURSIVE RoundScaled(_, _, _, _)
RoundScaled(a, d, up, down) ==
    IF a < Pow2(FloatBits - 1) * d THEN RoundScaled(2 * a, d, up, 2 * down)
    ELSE IF a >= Pow2(FloatBits) * d THEN RoundScaled(a, 2 * d, 2 * up, down)
    ELSE Q(RoundHalfEven(a, d) * up, down)

\* The float a real number is stored as.
Fl(x) ==
    IF ~IsFinite(x) \/ x[1] = 0 THEN x
    ELSE LET m == RoundScaled(Abs(x[1]), x[2], 1, 1)
         IN  <<Sgn(x[1]) * m[1], m[2]>>

FAdd(x, y) == Fl(Add(x, y))

FSub(x, y) == Fl(Sub(x, y))

FMul(x, y) == Fl(Mul(x, y))

FDiv(x, y) == Fl(Div(x, y))

\* Line 508: the sum of a column, added up from the first row on.
RECURSIVE FSumSeq(_, _)
FSumSeq(s, acc) == IF s = <<>> THEN acc ELSE FSumSeq(Tail(s), FAdd(acc, Head(s)))

\* Lines 507-508
FloatTotalServiceHours(df) ==
    FSumSeq([i \in DOMAIN df.rows |->
               FMul(Fl(CoerceCases(df.rows[i].cases)),
                    Fl(CoerceDuration(df.rows[i].duration)))], R(0))

\* Lines 507-546: one row of the result as float64 computes it, operation by
\* operation in the order of the source.
FloatPriceRow(row, total_fixed_cost, margin, total_service_hours) ==
    LET cases == Fl(CoerceCases(row.cases))
        vc    == Fl(CoerceVarCost(row.var_cost))
        dur   == Fl(CoerceDuration(row.duration))
        hours == FMul(cases, dur)
        alloc == IF Le(total_service_hours, R(0)) THEN R(0)
                 ELSE FMul(total_fixed_cost, FDiv(hours, total_service_hours))
        fcpc  == IF Le(total_service_hours, R(0)) THEN R(0)
                 ELSE IF Gt(cases, R(0)) THEN FDiv(alloc, cases) ELSE R(0)
        tcpc  == FAdd(vc, fcpc)
        price == FMul(tcpc, FAdd(R(1), margin))
        cm    == FSub(price, vc)
    IN  [name |-> row.name,
         cases |-> cases,
         var_cost |-> vc,
         duration |-> dur,
         service_hours |-> hours,
         alloc_fixed_cost |-> alloc,
         fixed_cost_per_case |-> fcpc,
         total_cost_per_case |-> tcpc,
         price_per_case |-> price,
         contrib_margin |-> cm,
         break_even |-> IF Gt(cm, R(0)) THEN FDiv(alloc, cm) ELSE Inf,
         revenue_expected |-> FMul(price, cases),
         profit_expected |-> FSub(FMul(cm, cases), alloc)]

\* Lines 477-560 in floating point, for a table with rows and all columns.
FloatPricing(services_df_input, total_fixed_cost, margin) ==
    LET total_service_hours == FloatTotalServiceHours(services_df_input)
    IN  DF(services_df_input.cols \cup CalcCols,
           [i \in DOMAIN services_df_input.rows |->
              FloatPriceRow(services_df_input.rows[i], Fl(total_fixed_cost), Fl(margin),
                            total_service_hours)])

\* Inputs of the float specification: three cases do not divide a share
\* without a remainder in binary; 0.75 h and 1 h are above the clamp.
FloatRows(i) ==
    [name : {ServiceNames[i]},
     cases : {Num(R(0)), Num(R(1)), Num(R(3))},
     var_cost : {Num(R(0)), Num(R(3))},
     duration : {Num(Q(3, 4)), Num(R(1))}]

FloatCollections ==
    {DF(InputCols, s) : s \in UNION {RowSeqs(n, [i \in 1..n |-> FloatRows(i)]) : n \in 1..2}}

InitFloat ==
    /\ ShellIdle
    /\ arg \in [df : FloatCollections, total_fixed_cost : {R(0), R(12)},
                margin : {R(0), Q(1, 2)}]
    /\ ret = NoneDF
    /\ pc = "input"

CallFloatPricing ==
    /\ pc = "input"
    /\ ret' = FloatPricing(arg.df, arg.total_fixed_cost, arg.margin)
    /\ pc' = "calculate_detailed_pricing"
    /\ UNCHANGED <<arg, shellVars>>

NextFloat == CallFloatPricing

SpecFloat == InitFloat /\ [][NextFloat]_vars

\* C26: for a valid collection, a pool >= 0 and a margin >= 0, the expected
\* profit of every service, being margin * total_cost_per_case *
\* expected_cases, is never negative, and it is 0 for a service that
\* expects no cases.
C26_ProfitNotNegative ==
    Priced /\ NonNegativeCall =>
        \A i \in DOMAIN ret.rows :
            /\ Le(R(0), ret.rows[i].profit_expected)
            /\ ret.rows[i].cases = R(0) => ret.rows[i].profit_expected = R(0)

\* C27: for a valid collection, a pool >= 0 and a margin >= 0, a finite
\* break-even of a service is at most its expected cases, and at margin 0
\* with a positive allocation it is the expected cases exactly.
C27_BreakEvenWithinVolume ==
    Priced /\ NonNegativeCall =>
        \A i \in DOMAIN ret.rows :
            LET r == ret.rows[i]
            IN  /\ IsFinite(r.break_even) => Le(r.break_even, r.cases)
                /\ arg.margin = R(0) /\ Gt(r.alloc_fixed_cost, R(0))
                      => r.break_even = r.cases

====
